---- MODULE Spec2Model ----
(***************************************************************************)
(* Model of mlpack's FFTConvolution<BorderMode, padLastDim>::Convolution   *)
(* (src/mlpack/methods/ann/convolution_rules/fft_convolution.hpp).         *)
(*                                                                         *)
(* A matrix is a record [n_rows, n_cols, at] where at maps <<row, col>>    *)
(* (0-based, as in Armadillo) to the element.  Elements are integers: the  *)
(* transform round trip real(ifft2(fft2(A) % fft2(B))) is modelled by what *)
(* Armadillo's fft2 and ifft2 compute in exact arithmetic over the common  *)
(* working size (floating-point rounding is left out).                     *)
(***************************************************************************)
EXTENDS Integers, FiniteSets, Sequences, TLC

\* Largest number of rows / columns of the caller's input and filter.
MaxRows == 3
MaxCols == 3

\* The same, for the operands of the linearity harness.
LinMaxRows == 2
LinMaxCols == 2

----------------------------------------------------------------------------
(* Armadillo primitives used by the code *)

Idx(r, c) == (0 .. r - 1) \X (0 .. c - 1)

\* arma::zeros<Mat>(r, c)
zeros(r, c) == [n_rows |-> r, n_cols |-> c, at |-> [ij \in Idx(r, c) |-> 0]]

\* Mat::resize(r, c): keeps the elements and their layout, drops what falls
\* outside the new size, zero-fills what is new.
resize(M, r, c) ==
  [n_rows |-> r, n_cols |-> c,
   at |-> [ij \in Idx(r, c) |->
             IF ij[1] < M.n_rows /\ ij[2] < M.n_cols THEN M.at[ij] ELSE 0]]

\* The bounds check of Mat::submat(r1, c1, r2, c2) (inclusive ranges).
submat_ok(M, r1, c1, r2, c2) ==
  /\ r1 >= 0 /\ c1 >= 0
  /\ r1 <= r2 /\ c1 <= c2
  /\ r2 < M.n_rows /\ c2 < M.n_cols

\* Mat::submat(r1, c1, r2, c2) read as a matrix.
submat(M, r1, c1, r2, c2) ==
  [n_rows |-> r2 - r1 + 1, n_cols |-> c2 - c1 + 1,
   at |-> [ij \in Idx(r2 - r1 + 1, c2 - c1 + 1) |->
             M.at[<<r1 + ij[1], c1 + ij[2]>>]]]

\* M.submat(r1, c1, r2, c2) = X
submat_assign(M, r1, c1, r2, c2, X) ==
  [M EXCEPT !.at = [ij \in Idx(M.n_rows, M.n_cols) |->
      IF r1 <= ij[1] /\ ij[1] <= r2 /\ c1 <= ij[2] /\ ij[2] <= c2
      THEN X.at[<<ij[1] - r1, ij[2] - c1>>] ELSE M.at[ij]]]

RECURSIVE SumSet(_, _)
SumSet(S, f) ==
  IF S = {} THEN 0
  ELSE LET x == CHOOSE y \in S : TRUE IN f[x] + SumSet(S \ {x}, f)

\* The working size is a vector for the library: one row or one column.
is_vec(R, C) == R = 1 \/ C = 1

\* The circular convolution of A and B with period (n_rows, n_cols).  Zero
\* entries of B contribute nothing and are skipped.
circular(A, B) ==
  LET R == A.n_rows
      C == A.n_cols
      supp == {ab \in Idx(R, C) : B.at[ab] # 0}
  IN [n_rows |-> R, n_cols |-> C,
      at |-> [ij \in Idx(R, C) |->
                SumSet(supp, [ab \in supp |->
                  B.at[ab] * A.at[<<(ij[1] - ab[1]) % R, (ij[2] - ab[2]) % C>>]])]]

\* arma::real(ifft2(arma::fft2(A) % arma::fft2(B))).  Armadillo's fft2(A) is
\* strans(fft(strans(fft(A)))) and ifft2 likewise with ifft; fft and ifft
\* transform each column of a matrix, but a matrix of one row or one column
\* along its length.  With two or more rows and columns this is the
\* two-dimensional transform, and by the convolution theorem the round trip
\* is the circular convolution of A and B.  A vector of N elements is
\* transformed along its length twice: fft2(A)[k] = N * A[-k mod N] and
\* ifft2(Z)[k] = Z[-k mod N] / N, so the round trip is N * A[k] * B[k].
fft_product(A, B) ==
  IF is_vec(A.n_rows, A.n_cols)
  THEN [n_rows |-> A.n_rows, n_cols |-> A.n_cols,
        at |-> [ij \in Idx(A.n_rows, A.n_cols) |->
                  A.n_rows * A.n_cols * A.at[ij] * B.at[ij]]]
  ELSE circular(A, B)

----------------------------------------------------------------------------
(* The body of Convolution, statement by statement, on the call's frame    *)
(* s: the three reference parameters, the two local buffers, the           *)
(* sub-region accesses made so far, whether a sub-region access was out of *)
(* bounds, and in bad the extraction request that was.                     *)
(* The parameters are references: alias tells which of the                 *)
(* const parameters is bound to the same object as output ("none",         *)
(* "input", "filter", or "both" when one object is passed three times).    *)

Aliases == {"none", "input", "filter", "both"}

Frame(in, f, out, al) ==
  [input |-> in, filter |-> f,
   output |-> IF al = "none" THEN out ELSE IF al = "filter" THEN f ELSE in,
   alias |-> al,
   inputPadded |-> zeros(0, 0), filterPadded |-> zeros(0, 0),
   accesses |-> {}, oob |-> FALSE, bad |-> <<>>]

\* An assignment to output: it is seen through every parameter bound to the
\* same object.
SetOutput(s, M) ==
  [s EXCEPT !.output = M,
            !.input = IF s.alias \in {"input", "both"} THEN M ELSE @,
            !.filter = IF s.alias \in {"filter", "both"} THEN M ELSE @]

Access(M, r1, c1, r2, c2) ==
  [n_rows |-> M.n_rows, n_cols |-> M.n_cols,
   r1 |-> r1, c1 |-> c1, r2 |-> r2, c2 |-> c2]

\* Valid, lines 53-54: the operands are copied into the local buffers.
CopyOperands(s) ==
  [s EXCEPT !.inputPadded = s.input, !.filterPadded = s.filter]

\* Valid, lines 56-57: one more (zero) column on the copy of the input.
PadLastDim(s, pad) ==
  IF pad
  THEN [s EXCEPT !.inputPadded =
          resize(s.inputPadded, s.inputPadded.n_rows, s.inputPadded.n_cols + 1)]
  ELSE s

\* Valid line 60: the filter copy takes the shape of the padded input.
PadFilter(s) ==
  [s EXCEPT !.filterPadded =
     resize(s.filterPadded, s.inputPadded.n_rows, s.inputPadded.n_cols)]

\* Variant: the padded input is passed as both factors of the product.
Transform_typo(s) ==
  SetOutput(s, fft_product(s.inputPadded, s.inputPadded))

\* Lines 62-63 and 108-109: output is assigned the working-size result.
Transform(s) ==
  SetOutput(s, fft_product(s.inputPadded, s.filterPadded))

\* output = output.submat(r1, c1, r2, c2), with the library's bounds check.
\* A request that fails the check is kept in bad: what becomes of it depends
\* on the build (Returns).
Extract(s, r1, c1, r2, c2) ==
  IF submat_ok(s.output, r1, c1, r2, c2)
  THEN [SetOutput(s, submat(s.output, r1, c1, r2, c2))
          EXCEPT !.accesses = @ \cup {Access(s.output, r1, c1, r2, c2)}]
  ELSE [s EXCEPT !.oob = TRUE,
                 !.bad = <<Access(s.output, r1, c1, r2, c2)>>,
                 !.accesses = @ \cup {Access(s.output, r1, c1, r2, c2)}]

\* Valid, lines 67-68: the dimensions of filter and input are read here,
\* after the assignment to output.
ExtractValid(s) ==
  Extract(s, s.filter.n_rows - 1, s.filter.n_cols - 1,
             s.input.n_rows - 1, s.input.n_cols - 1)

\* Convolution for Border = ValidConvolution, lines 49-69.
ValidConvolution(s, pad) ==
  ExtractValid(Transform(PadFilter(PadLastDim(CopyOperands(s), pad))))

\* Full, line 91.
outputRows(s) == s.input.n_rows + 2 * (s.filter.n_rows - 1)

\* Full, lines 92-95.
outputCols(s, pad) ==
  s.input.n_cols + 2 * (s.filter.n_cols - 1) + (IF pad THEN 1 ELSE 0)

\* Full, lines 98-102: a zero working buffer with the input placed at
\* offset (filter.n_rows - 1, filter.n_cols - 1).
PlaceInput(s, pad) ==
  LET Z  == zeros(outputRows(s), outputCols(s, pad))
      r1 == s.filter.n_rows - 1
      c1 == s.filter.n_cols - 1
      r2 == s.filter.n_rows - 1 + s.input.n_rows - 1
      c2 == s.filter.n_cols - 1 + s.input.n_cols - 1
  IN IF submat_ok(Z, r1, c1, r2, c2)
     THEN [s EXCEPT !.inputPadded = submat_assign(Z, r1, c1, r2, c2, s.input),
                    !.accesses = @ \cup {Access(Z, r1, c1, r2, c2)}]
     ELSE [s EXCEPT !.inputPadded = Z, !.oob = TRUE,
                    !.accesses = @ \cup {Access(Z, r1, c1, r2, c2)}]

\* Full, lines 104-105.
PadFilterFull(s, pad) ==
  [s EXCEPT !.filterPadded = resize(s.filter, outputRows(s), outputCols(s, pad))]

\* Full, lines 113-115: the dimensions of filter and input are read here,
\* after the assignment to output.
ExtractFull(s) ==
  Extract(s, s.filter.n_rows - 1, s.filter.n_cols - 1,
             2 * (s.filter.n_rows - 1) + s.input.n_rows - 1,
             2 * (s.filter.n_cols - 1) + s.input.n_cols - 1)

\* Convolution for Border = FullConvolution, lines 84-116.  A failed
\* placement leaves the function before anything else is done.
FullConvolution(s, pad) ==
  LET p == PlaceInput(s, pad)
  IN IF p.oob THEN p
     ELSE ExtractFull(Transform(PadFilterFull(p, pad)))

\* Convolution of FFTConvolution<mode, pad>: the overload enable_if selects.
Convolution(mode, pad, s) ==
  IF mode = "Valid" THEN ValidConvolution(s, pad) ELSE FullConvolution(s, pad)

----------------------------------------------------------------------------
(* The caller's matrices *)

\* A single 1 at linear (column-major) position k, zero elsewhere.
Impulse(r, c, k) ==
  [n_rows |-> r, n_cols |-> c,
   at |-> [ij \in Idx(r, c) |-> IF ij[1] + ij[2] * r = k THEN 1 ELSE 0]]

Ones(r, c) ==
  [n_rows |-> r, n_cols |-> c, at |-> [ij \in Idx(r, c) |-> 1]]

\* 1, 2, 3, ... in column-major order: all entries distinct.
Ramp(r, c) ==
  [n_rows |-> r, n_cols |-> c, at |-> [ij \in Idx(r, c) |-> 1 + ij[1] + ij[2] * r]]

\* The matrices of shape (r, c) the caller passes: an impulse in the first
\* and in the last position, all ones, and the ramp.
MatsOf(r, c) ==
  {Impulse(r, c, 0), Impulse(r, c, r * c - 1), Ones(r, c), Ramp(r, c)}

Mats == UNION {MatsOf(r, c) : r \in 1 .. MaxRows, c \in 1 .. MaxCols}

\* What the caller's output object may hold before the call.
PriorOutputs ==
  {zeros(0, 0), [n_rows |-> 1, n_cols |-> 1, at |-> [ij \in Idx(1, 1) |-> 7]]}

----------------------------------------------------------------------------
(* State *)

VARIABLES
  BorderMode,    \* template parameter: "Valid" or "Full"
  input,         \* the caller's input matrix
  filter,        \* the caller's filter matrix
  output,        \* per padLastDim: the matrix bound to the parameter output
                 \* (the caller's own output matrix when it is not aliased)
  alias,         \* per padLastDim: which parameters shared output's object
                 \* in the call ("unset" before the call)
  status,        \* per padLastDim: "ready", "ok" (the call returned),
                 \* "threw", "hangs" (the call does not return),
                 \* "undefined" (undefined behaviour was executed)
  inputPadded,   \* per padLastDim: the local inputPadded at return
  filterPadded,  \* per padLastDim: the local filterPadded at return
  accesses,      \* per padLastDim: the sub-region accesses of the call
  pre,           \* the caller's matrices as they were before any call
  lin            \* the linearity harness (idle under Spec)

vars == <<BorderMode, input, filter, output, alias, status, inputPadded,
          filterPadded, accesses, pre, lin>>

NoLin == [step |-> 0]

InitCall(in, f, o) ==
  /\ input = in
  /\ filter = f
  /\ output = [pad \in BOOLEAN |-> o]
  /\ alias = [pad \in BOOLEAN |-> "unset"]
  /\ pre = [input |-> in, filter |-> f, output |-> o]
  /\ status = [pad \in BOOLEAN |-> "ready"]
  /\ inputPadded = [pad \in BOOLEAN |-> zeros(0, 0)]
  /\ filterPadded = [pad \in BOOLEAN |-> zeros(0, 0)]
  /\ accesses = [pad \in BOOLEAN |-> {}]

Init ==
  /\ BorderMode \in {"Valid", "Full"}
  /\ \E in \in Mats, f \in Mats, o \in PriorOutputs : InitCall(in, f, o)
  /\ lin = NoLin

\* The library built without bounds checks (ARMA_NO_DEBUG) makes the
\* sub-region of a request without looking at the matrix: n_rows is
\* r2 - r1 + 1 and n_cols is c2 - c1 + 1 in unsigned 64-bit arithmetic.  A
\* negative value stands here for its residue modulo 2^64.
WindowRows(a) == a.r2 - a.r1 + 1

WindowCols(a) == a.c2 - a.c1 + 1

\* The failed extraction asked for a sub-region without elements (one of
\* its dimensions is 0): the unchecked build reads nothing and returns.
EmptyWindow(s) ==
  /\ s.bad # <<>>
  /\ (WindowRows(s.bad[1]) = 0 \/ WindowCols(s.bad[1]) = 0)

\* The failed extraction asked for 0 rows and a column count that wrapped
\* round (first column beyond last column + 1): the unchecked copy loop
\* runs over 2^64 - 1 columns of no rows.
EndlessWindow(s) ==
  /\ s.bad # <<>>
  /\ WindowRows(s.bad[1]) = 0
  /\ WindowCols(s.bad[1]) < 0

\* The unchecked copy of the requested sub-region out of M (column-major
\* memory): element (i, j) is read at offset (r1 + i) + (c1 + j) * n_rows.
\* An offset inside M's memory reads that element of M.  An offset outside
\* reads whatever the memory next to M holds (stale data of other matrices,
\* anything): such an element has no value here, it is left out of at.
StrayWindow(M, a) ==
  LET inside == {ij \in Idx(WindowRows(a), WindowCols(a)) :
                   (a.r1 + ij[1]) + (a.c1 + ij[2]) * M.n_rows < M.n_rows * M.n_cols}
  IN [n_rows |-> WindowRows(a), n_cols |-> WindowCols(a),
      at |-> [ij \in inside |->
        LET k == (a.r1 + ij[1]) + (a.c1 + ij[2]) * M.n_rows
        IN M.at[<<k % M.n_rows, k \div M.n_rows>>]]]

\* What an out-of-bounds sub-region access with elements can leave in output
\* in the unchecked build.  The behaviour is undefined: the call dies or
\* fails to allocate with the working-size result in output, leaves an
\* empty output, or returns the requested shape filled from the addresses
\* the request maps to.
UndefinedOutputs(s) ==
  {s.output, zeros(0, 0)} \cup
  (IF s.bad # <<>> /\ WindowRows(s.bad[1]) > 0 /\ WindowCols(s.bad[1]) > 0
   THEN {StrayWindow(s.output, s.bad[1])}
   ELSE {})

\* The caller's view of frame t when the call is over.
Leaves(pad, t, st) ==
  /\ input' = t.input
  /\ filter' = t.filter
  /\ output' = [output EXCEPT ![pad] = t.output]
  /\ alias' = [alias EXCEPT ![pad] = t.alias]
  /\ status' = [status EXCEPT ![pad] = st]
  /\ inputPadded' = [inputPadded EXCEPT ![pad] = t.inputPadded]
  /\ filterPadded' = [filterPadded EXCEPT ![pad] = t.filterPadded]
  /\ accesses' = [accesses EXCEPT ![pad] = t.accesses]

\* How the call that ran to frame s ends.  An out-of-bounds sub-region
\* access throws in the checked build (output keeps what the function had
\* assigned so far).  In the unchecked build an extraction without elements
\* returns normally with that empty sub-region in output, unless its copy
\* loop is endless and the build did not remove it: then the call does not
\* return and output keeps the working-size result.  Any other
\* out-of-bounds access is undefined behaviour.
Returns(pad, s) ==
  IF ~s.oob
  THEN Leaves(pad, s, "ok")
  ELSE \/ Leaves(pad, s, "threw")
       \/ EndlessWindow(s) /\ Leaves(pad, s, "hangs")
       \/ IF EmptyWindow(s)
          THEN Leaves(pad, SetOutput(s, zeros(WindowRows(s.bad[1]),
                                              WindowCols(s.bad[1]))), "ok")
          ELSE \E g \in UndefinedOutputs(s) :
                 Leaves(pad, SetOutput(s, g), "undefined")

\* One call of FFTConvolution<BorderMode, pad>::Convolution(input, filter,
\* out), where out is the caller's output[pad] or, aliased, the caller's
\* input or filter itself ("both": one matrix passed as all three).  The
\* caller makes no further call on operands a call has overwritten.
Call(mode, pad) ==
  /\ BorderMode = mode
  /\ status[pad] = "ready"
  /\ \A p \in BOOLEAN : alias[p] \in {"unset", "none"}
  /\ \E al \in Aliases :
       /\ al = "both" => input = filter
       /\ Returns(pad, Convolution(mode, pad, Frame(input, filter, output[pad], al)))
  /\ UNCHANGED <<BorderMode, pre, lin>>

ConvolutionValid == \E pad \in BOOLEAN : Call("Valid", pad)

ConvolutionFull == \E pad \in BOOLEAN : Call("Full", pad)

Next == ConvolutionValid \/ ConvolutionFull

Spec == Init /\ [][Next]_vars

----------------------------------------------------------------------------
(* The linearity harness: the same instantiation is called on X, on Y and  *)
(* on a*X + b*Y, each time with a fresh copy of one filter F and with the  *)
(* same choice of the object passed as output.  The harness goes on to the *)
(* next call when the last one returned.                                   *)

Scale(a, M) == [M EXCEPT !.at = [ij \in DOMAIN M.at |-> a * M.at[ij]]]

Add(M, N) == [M EXCEPT !.at = [ij \in DOMAIN M.at |-> M.at[ij] + N.at[ij]]]

Scalars == {<<2, -1>>, <<-1, 3>>}

Fits(mode, in, f) ==
  mode = "Full" \/ (f.n_rows <= in.n_rows /\ f.n_cols <= in.n_cols)

InitLin ==
  /\ BorderMode \in {"Valid", "Full"}
  /\ \E r \in 1 .. LinMaxRows, c \in 1 .. LinMaxCols :
       \E X \in MatsOf(r, c), Y \in MatsOf(r, c), sc \in Scalars, pad \in BOOLEAN :
         \E fr \in 1 .. LinMaxRows, fc \in 1 .. LinMaxCols :
           \E f \in MatsOf(fr, fc), al \in {"none", "input", "filter"} :
             /\ Fits(BorderMode, X, f)
             /\ InitCall(X, f, zeros(0, 0))
             /\ lin = [step |-> 1, X |-> X, Y |-> Y, F |-> f,
                       a |-> sc[1], b |-> sc[2], pad |-> pad, alias |-> al,
                       outX |-> zeros(0, 0), outY |-> zeros(0, 0),
                       okX |-> FALSE, okY |-> FALSE]

LinCall(in) ==
  Returns(lin.pad,
          Convolution(BorderMode, lin.pad,
                      Frame(in, lin.F, output[lin.pad], lin.alias)))

LinCallX ==
  /\ lin.step = 1
  /\ LinCall(lin.X)
  /\ lin' = [lin EXCEPT !.step = 2, !.outX = output'[lin.pad],
                        !.okX = (status'[lin.pad] = "ok")]
  /\ UNCHANGED <<BorderMode, pre>>

LinCallY ==
  /\ lin.step = 2
  /\ lin.okX
  /\ LinCall(lin.Y)
  /\ lin' = [lin EXCEPT !.step = 3, !.outY = output'[lin.pad],
                        !.okY = (status'[lin.pad] = "ok")]
  /\ UNCHANGED <<BorderMode, pre>>

LinCallSum ==
  /\ lin.step = 3
  /\ lin.okY
  /\ LinCall(Add(Scale(lin.a, lin.X), Scale(lin.b, lin.Y)))
  /\ lin' = [lin EXCEPT !.step = 4]
  /\ UNCHANGED <<BorderMode, pre>>

NextLin == LinCallX \/ LinCallY \/ LinCallSum

SpecLin == InitLin /\ [][NextLin]_vars

----------------------------------------------------------------------------
(* Reference results: the spatial-domain linear convolution *)

Const(r, c, v) == [n_rows |-> r, n_cols |-> c, at |-> [ij \in Idx(r, c) |-> v]]

\* X[i][j], with 0 outside X.
ZAt(X, i, j) ==
  IF 0 <= i /\ i < X.n_rows /\ 0 <= j /\ j < X.n_cols THEN X.at[<<i, j>>] ELSE 0

\* out[i][j] = sum over a<p, b<q of F[a][b] * X[i+p-1-a][j+q-1-b]
DirectValid(X, F) ==
  LET p == F.n_rows
      q == F.n_cols
      r == X.n_rows - p + 1
      c == X.n_cols - q + 1
  IN [n_rows |-> r, n_cols |-> c,
      at |-> [ij \in Idx(r, c) |->
        SumSet(Idx(p, q), [ab \in Idx(p, q) |->
          F.at[ab] * X.at[<<ij[1] + p - 1 - ab[1], ij[2] + q - 1 - ab[2]>>]])]]

\* out[i][j] = sum over a<p, b<q of F[a][b] * X[i-a][j-b], 0 outside X
DirectFull(X, F) ==
  LET p == F.n_rows
      q == F.n_cols
      r == X.n_rows + p - 1
      c == X.n_cols + q - 1
  IN [n_rows |-> r, n_cols |-> c,
      at |-> [ij \in Idx(r, c) |->
        SumSet(Idx(p, q), [ab \in Idx(p, q) |->
          F.at[ab] * ZAt(X, ij[1] - ab[1], ij[2] - ab[2])])]]

Direct(mode, X, F) == IF mode = "Valid" THEN DirectValid(X, F) ELSE DirectFull(X, F)

Done(pad) == status[pad] # "ready"

\* The preconditions of the call the caller made.
PreOK == Fits(BorderMode, pre.input, pre.filter)

\* What the object passed as output held before the call.
PriorOutput(pad) ==
  IF alias[pad] \in {"input", "both"} THEN pre.input
  ELSE IF alias[pad] = "filter" THEN pre.filter
  ELSE pre.output

----------------------------------------------------------------------------
(* Claims *)

\* C1: Valid mode, filter no larger than the input, either padLastDim: the
\* call succeeds and output is the direct linear convolution restricted to
\* the fully-overlapping window; 3x3 ones with 2x2 ones gives 2x2 of 4.
C1_ValidEqualsDirect ==
  (BorderMode = "Valid" /\ PreOK) =>
    \A pad \in BOOLEAN :
      Done(pad) =>
        /\ status[pad] = "ok"
        /\ output[pad] = DirectValid(pre.input, pre.filter)
        /\ (pre.input = Ones(3, 3) /\ pre.filter = Ones(2, 2)) =>
             output[pad] = Const(2, 2, 4)

\* The 4x4 pattern of the all-ones example: corners 1, edges 2, centre 4.
OnesPattern ==
  [n_rows |-> 4, n_cols |-> 4,
   at |-> [ij \in Idx(4, 4) |->
     (IF ij[1] \in {0, 3} THEN 1 ELSE 2) * (IF ij[2] \in {0, 3} THEN 1 ELSE 2)]]

\* C2: Full mode, any non-empty filter (also one larger than the input),
\* either padLastDim: the call succeeds and output is the complete linear
\* convolution; 3x3 ones with 2x2 ones gives corners 1, edges 2, centre 4.
C2_FullEqualsDirect ==
  BorderMode = "Full" =>
    \A pad \in BOOLEAN :
      Done(pad) =>
        /\ status[pad] = "ok"
        /\ output[pad] = DirectFull(pre.input, pre.filter)
        /\ (pre.input = Ones(3, 3) /\ pre.filter = Ones(2, 2)) =>
             output[pad] = OnesPattern

\* C3: with p <= m and q <= n the output left by the call has shape
\* (m-p+1, n-q+1) in Valid mode and (m+p-1, n+q-1) in Full mode, with
\* padLastDim set or not.
C3_OutputShape ==
  (pre.filter.n_rows <= pre.input.n_rows /\ pre.filter.n_cols <= pre.input.n_cols) =>
    \A pad \in BOOLEAN :
      Done(pad) =>
        /\ status[pad] = "ok"
        /\ BorderMode = "Valid" =>
             /\ output[pad].n_rows = pre.input.n_rows - pre.filter.n_rows + 1
             /\ output[pad].n_cols = pre.input.n_cols - pre.filter.n_cols + 1
        /\ BorderMode = "Full" =>
             /\ output[pad].n_rows = pre.input.n_rows + pre.filter.n_rows - 1
             /\ output[pad].n_cols = pre.input.n_cols + pre.filter.n_cols - 1
        /\ DOMAIN output[pad].at = Idx(output[pad].n_rows, output[pad].n_cols)

\* C4: for operands satisfying the preconditions, the call with padLastDim
\* set and the call with it clear end the same way with the same output
\* (shape and values).
C4_PadLastDimInvariance ==
  (PreOK /\ Done(TRUE) /\ Done(FALSE)) =>
    /\ status[TRUE] = status[FALSE]
    /\ output[TRUE] = output[FALSE]

\* C5: no partial results: a call either leaves the complete correct result
\* in output, or fails with output holding what it held before the call.
C5_NoPartialResults ==
  \A pad \in BOOLEAN :
    Done(pad) =>
      \/ /\ status[pad] = "ok"
         /\ output[pad] = Direct(BorderMode, pre.input, pre.filter)
      \/ /\ status[pad] # "ok"
         /\ output[pad] = PriorOutput(pad)

\* C6: input and filter keep their shape and contents across every call
\* (read in the claim's favour: of an operand the caller did not pass as
\* output as well; the object passed as output is held to the clause about
\* output); an output object no call was made on keeps its contents, and
\* after a call that returned, output holds the result whatever it held
\* before.
C6_InputsReadOnly ==
  /\ (\A pad \in BOOLEAN : alias[pad] \notin {"input", "both"}) => input = pre.input
  /\ (\A pad \in BOOLEAN : alias[pad] \notin {"filter", "both"}) => filter = pre.filter
  /\ \A pad \in BOOLEAN :
       /\ status[pad] = "ready" => output[pad] = pre.output
       /\ status[pad] = "ok" =>
            output[pad] = Direct(BorderMode, pre.input, pre.filter)

\* C7: with the 1x1 filter [1] the call succeeds and output equals the
\* input, in Valid and in Full mode and for either padLastDim.
C7_IdentityFilter ==
  pre.filter = Ones(1, 1) =>
    \A pad \in BOOLEAN :
      Done(pad) => (status[pad] = "ok" /\ output[pad] = pre.input)

\* C8: linearity in the input: whenever the three calls of the harness
\* (on X, on Y, on a*X + b*Y) have returned, the output for a*X + b*Y is a
\* times the output for X plus b times the output for Y, element by
\* element; with an output object of its own every one of them returns.
C8_Linearity ==
  /\ (lin.step >= 2 /\ lin.alias = "none") => status[lin.pad] = "ok"
  /\ (lin.step = 4 /\ lin.okX /\ lin.okY /\ status[lin.pad] = "ok") =>
       /\ output[lin.pad].n_rows = lin.outX.n_rows
       /\ output[lin.pad].n_cols = lin.outX.n_cols
       /\ lin.outY.n_rows = lin.outX.n_rows
       /\ lin.outY.n_cols = lin.outX.n_cols
       /\ output[lin.pad] = Add(Scale(lin.a, lin.outX), Scale(lin.b, lin.outY))

C8_Witness ==
  /\ lin.step = 4
  /\ BorderMode = "Full"
  /\ lin.alias = "none"
  /\ lin.X = Ramp(2, 2) /\ lin.Y = Impulse(2, 2, 3) /\ lin.F = Ramp(2, 2)
  /\ lin.a = 2 /\ lin.b = -1
  /\ lin.okX /\ lin.okY /\ status[lin.pad] = "ok"
  /\ output[lin.pad].at[<<1, 1>>] = 2 * lin.outX.at[<<1, 1>>] - lin.outY.at[<<1, 1>>]
  /\ lin.outY.at[<<1, 1>>] # 0

\* C9: Valid mode with a filter of exactly the input's shape succeeds and
\* gives a 1x1 output holding the sum of F[a][b] * X[m-1-a][n-1-b].
C9_EqualSizeValid ==
  (/\ BorderMode = "Valid"
   /\ pre.filter.n_rows = pre.input.n_rows
   /\ pre.filter.n_cols = pre.input.n_cols) =>
    \A pad \in BOOLEAN :
      Done(pad) =>
        /\ status[pad] = "ok"
        /\ output[pad] =
             Const(1, 1,
               SumSet(DOMAIN pre.filter.at,
                 [ab \in DOMAIN pre.filter.at |->
                    pre.filter.at[ab] *
                    pre.input.at[<<pre.input.n_rows - 1 - ab[1],
                                   pre.input.n_cols - 1 - ab[2]>>]]))

\* The working size the two padded operands are to have.
WorkRows ==
  IF BorderMode = "Valid" THEN pre.input.n_rows
  ELSE pre.input.n_rows + 2 * (pre.filter.n_rows - 1)

WorkCols(pad) ==
  (IF BorderMode = "Valid" THEN pre.input.n_cols
   ELSE pre.input.n_cols + 2 * (pre.filter.n_cols - 1)) + (IF pad THEN 1 ELSE 0)

\* The sub-region accesses a call is to make: the placement (Full only) and
\* the extraction window.
ExpectedAccesses(pad) ==
  LET m == pre.input.n_rows
      n == pre.input.n_cols
      p == pre.filter.n_rows
      q == pre.filter.n_cols
      on == [n_rows |-> WorkRows, n_cols |-> WorkCols(pad)]
  IN IF BorderMode = "Valid"
     THEN {Access(on, p - 1, q - 1, m - 1, n - 1)}
     ELSE {Access(on, p - 1, q - 1, p + m - 2, q + n - 2),
           Access(on, p - 1, q - 1, 2 * (p - 1) + m - 1, 2 * (q - 1) + n - 1)}

\* C10: for a call satisfying the preconditions, (1) both padded operands
\* have the working size, and (2) the sub-region accesses made are the
\* placement and the extraction window, each with first index <= last index
\* and inside the matrix it indexes.
C10_IndexSafety ==
  PreOK =>
    \A pad \in BOOLEAN :
      Done(pad) =>
        /\ inputPadded[pad].n_rows = WorkRows
        /\ inputPadded[pad].n_cols = WorkCols(pad)
        /\ filterPadded[pad].n_rows = WorkRows
        /\ filterPadded[pad].n_cols = WorkCols(pad)
        /\ accesses[pad] = ExpectedAccesses(pad)
        /\ \A a \in accesses[pad] :
             /\ 0 <= a.r1 /\ a.r1 <= a.r2 /\ a.r2 < a.n_rows
             /\ 0 <= a.c1 /\ a.c1 <= a.c2 /\ a.c2 < a.n_cols

----------------------------------------------------------------------------
(* What holds of C1-C4, C7, C9 and C10 for the calls whose output is an    *)
(* object of its own and whose working size has two or more rows and       *)
(* columns or is 1x1: such a call within the preconditions succeeds, makes *)
(* exactly the expected in-bounds accesses on working-size operands and    *)
(* leaves the direct convolution, the same for either padLastDim.          *)
PlaneWork(pad) ==
  \/ ~is_vec(WorkRows, WorkCols(pad))
  \/ (WorkRows = 1 /\ WorkCols(pad) = 1)

DistinctOutputLemma ==
  PreOK =>
    \A pad \in BOOLEAN :
      (Done(pad) /\ alias[pad] = "none") =>
        /\ status[pad] = "ok"
        /\ PlaneWork(pad) => output[pad] = Direct(BorderMode, pre.input, pre.filter)
        /\ (PlaneWork(pad) /\ pre.filter = Ones(1, 1)) => output[pad] = pre.input
        /\ inputPadded[pad].n_rows = WorkRows
        /\ inputPadded[pad].n_cols = WorkCols(pad)
        /\ filterPadded[pad].n_rows = WorkRows
        /\ filterPadded[pad].n_cols = WorkCols(pad)
        /\ accesses[pad] = ExpectedAccesses(pad)
        /\ \A a \in accesses[pad] :
             /\ 0 <= a.r1 /\ a.r1 <= a.r2 /\ a.r2 < a.n_rows
             /\ 0 <= a.c1 /\ a.c1 <= a.c2 /\ a.c2 < a.n_cols

====
